---- MODULE Spec2Model ----
(***************************************************************************)
(* Model of nnet/layers.py: the layer wrappers that add variational        *)
(* synaptic noise (Linear, LSTM, Embedding), explicit pre-padding          *)
(* (Conv1d, Conv2d, Conv3d, ConvTranspose1d) and per-example expert        *)
(* selection (SwitchLinear) to the tensor runtime's primitive ops.         *)
(*                                                                         *)
(* Tensors are matrices (sequences of rows) or vectors of integers.        *)
(* An optional Python value is a sequence of length 0 (None) or 1.         *)
(***************************************************************************)
EXTENDS Integers, Sequences, FiniteSets, TLC

VARIABLES layer, last, conv, conv_last, switch, switch_last,
          replicas, pc, drawn0, overwritten, pool, pool_last

noiseVars == <<layer, last>>
convVars == <<conv, conv_last>>
switchVars == <<switch, switch_last>>
distVars == <<replicas, pc, drawn0, overwritten>>
poolVars == <<pool, pool_last>>
vars == <<layer, last, conv, conv_last, switch, switch_last,
          replicas, pc, drawn0, overwritten, pool, pool_last>>
exceptNoise == <<convVars, switchVars, distVars, poolVars>>
exceptConv == <<noiseVars, switchVars, distVars, poolVars>>
exceptSwitch == <<noiseVars, convVars, distVars, poolVars>>
exceptDist == <<noiseVars, convVars, switchVars, poolVars>>
exceptPool == <<noiseVars, convVars, switchVars, distVars>>

----------------------------------------------------------------------------
(* Bounds of the model *)

MaxGroups == 2
MaxStd == 2
InFeatures == 2
OutFeatures == 1
NumEmbeddings == 2
EmbeddingDim == 1
HiddenSize == 1
InputSize == 1
MaxKernel == 3
MaxStride == 2
MaxDilation == 2
MaxOutputPadding == 1
MaxLen == 4
MaxExperts == 2
MaxBatch == 2
NumRanks == 2
MaxCalls == 2
MaxDistGroups == 1
MaxLSTMLayers == 2
MaxPooled == 3

----------------------------------------------------------------------------
(* Python values and tensor arithmetic *)

None == <<>>
Some(v) == <<v>>

RECURSIVE SumTo(_, _)
SumTo(f, n) == IF n = 0 THEN 0 ELSE f[n] + SumTo(f, n - 1)

Dot(a, b) == SumTo([i \in 1..Len(a) |-> a[i] * b[i]], Len(a))

Mat(r, c, base) == [i \in 1..r |-> [j \in 1..c |-> base + (i - 1) * c + j]]
Vec(n, base) == [i \in 1..n |-> base + i]
Full(shape, v) == [i \in 1..shape[1] |-> [j \in 1..shape[2] |-> v]]
Size(t) == <<Len(t), Len(t[1])>>

MAdd(a, b) == [i \in 1..Len(a) |-> [j \in 1..Len(a[i]) |-> a[i][j] + b[i][j]]]
MScale(m, a) == [i \in 1..Len(a) |-> [j \in 1..Len(a[i]) |-> m * a[i][j]]]
VAdd(a, b) == [i \in 1..Len(a) |-> a[i] + b[i]]
Transpose(a) == [j \in 1..Len(a[1]) |-> [i \in 1..Len(a) |-> a[i][j]]]
\* row vector times matrix: (1, n) x (n, m) -> (1, m)
VecMat(v, a) == [j \in 1..Len(a[1]) |-> SumTo([i \in 1..Len(v) |-> v[i] * a[i][j]], Len(v))]

\* torch.normal(mean=0, std=1, size=shape): the draws the model enumerates
\* are the tensors of that shape filled with one value of NoiseVals
NoiseVals == {-1, 1}
Normal(shape, v) == Full(shape, v)

\* torch.distributed.broadcast(tensor, 0): the tensor becomes rank 0's
Broadcast_keeps_local(tensor, tensor0) == tensor
Broadcast(tensor, tensor0) == tensor0

\* F.linear(x, weight, bias) for one example x
F_linear(x, weight, bias) ==
    LET y == [o \in 1..Len(weight) |-> Dot(x, weight[o])]
    IN  IF bias = None THEN y ELSE VAdd(y, bias[1])

\* F.embedding(input, weight): one table row per token id (ids start at 0)
F_embedding(input, weight) == [n \in 1..Len(input) |-> weight[input[n] + 1]]

\* _VF.lstm(input, hx, weight, bias, ...): the runtime's kernel, kept opaque
VF_lstm(input, weight, bias) == [op |-> "lstm", input |-> input, weight |-> weight, bias |-> bias]

----------------------------------------------------------------------------
(* Construction *)

VnStds == 0..MaxStd

\* nn.LSTM's _flat_weights: per (layer, direction) w_ih, w_hh, b_ih, b_hh
LSTMFlatWeights(num_layers, bidirectional) ==
    LET dirs == IF bidirectional THEN 2 ELSE 1
        G == num_layers * dirs
        group(i) == (i - 1) \div 4
        layerOf(i) == group(i) \div dirs
        inSize(i) == IF layerOf(i) = 0 THEN InputSize ELSE HiddenSize * dirs
    IN  [i \in 1..(4 * G) |->
            CASE (i - 1) % 4 = 0 -> Mat(4 * HiddenSize, inSize(i), 10 * i)
              [] (i - 1) % 4 = 1 -> Mat(4 * HiddenSize, HiddenSize, 10 * i)
              [] OTHER -> Vec(4 * HiddenSize, 10 * i)]

Linear_init(bias) ==
    [kind |-> "Linear",
     flat_weights |-> <<Mat(OutFeatures, InFeatures, 0)>>,
     bias |-> IF bias THEN Some(Vec(OutFeatures, 4)) ELSE None,
     noise |-> None, vn_std |-> None, training |-> TRUE]

LSTM_init(num_layers, bidirectional) ==
    [kind |-> "LSTM",
     flat_weights |-> LSTMFlatWeights(num_layers, bidirectional),
     bias |-> None,
     noise |-> None, vn_std |-> None, training |-> TRUE]

Embedding_init ==
    [kind |-> "Embedding",
     flat_weights |-> <<Mat(NumEmbeddings, EmbeddingDim, 0)>>,
     bias |-> None,
     noise |-> None, vn_std |-> None, training |-> TRUE]

Layers ==
    {Linear_init(b) : b \in BOOLEAN}
    \cup {Embedding_init}
    \cup {LSTM_init(n, bi) : n \in 1..MaxGroups, bi \in {FALSE}}
    \cup {LSTM_init(n, TRUE) : n \in {m \in 1..MaxGroups : 2 * m <= MaxGroups}}

----------------------------------------------------------------------------
(* Variational noise: init_vn, sample_synaptic_noise, forward *)

init_vn_reset(self, vn_std) == [self EXCEPT !.vn_std = Some(vn_std), !.noise = None]
init_vn(self, vn_std) == [self EXCEPT !.vn_std = Some(vn_std)]

\* The indices of _flat_weights a noise tensor is drawn for, in drawing order:
\* Linear/Embedding: the weight; LSTM: i and i+1 for i in range(0, len, 4)
NoiseSources(self) ==
    IF self.kind = "LSTM"
    THEN [n \in 1..(Len(self.flat_weights) \div 2) |->
             4 * ((n - 1) \div 2) + ((n - 1) % 2) + 1]
    ELSE <<1>>

\* every list of fresh draws sample_synaptic_noise can make: one tensor per
\* source, of the source's size
NoiseDraws(self) ==
    LET src == NoiseSources(self)
    IN  {[n \in 1..Len(src) |-> Normal(Size(self.flat_weights[src[n]]), v[n])] :
            v \in [1..Len(src) -> NoiseVals]}

\* sample_synaptic_noise with the draws `drawn`; in a world of one participant
\* the broadcast from rank 0 hands every tensor back unchanged
sample_synaptic_noise(self, distributed, drawn) ==
    [self EXCEPT !.noise =
        Some(IF distributed
             THEN [n \in 1..Len(drawn) |-> Broadcast(drawn[n], drawn[n])]
             ELSE drawn)]

NoiseActive_any_mode(self) == self.noise # None
NoiseActive(self) == self.noise # None /\ self.training

\* weight + vn_std * noise; None * tensor raises TypeError
Perturbed(weight, vn_std, noise) == MAdd(weight, MScale(vn_std[1], noise))

ForwardError(self, err) ==
    [self |-> self, status |-> err, weight |-> None, bias |-> None, y |-> None]

Linear_forward_inplace(self, x) ==
    IF NoiseActive(self) /\ self.vn_std = None THEN ForwardError(self, "TypeError")
    ELSE LET weight == IF NoiseActive(self)
                       THEN Perturbed(self.flat_weights[1], self.vn_std, self.noise[1][1])
                       ELSE self.flat_weights[1]
         IN  [self |-> [self EXCEPT !.flat_weights = <<weight>>], status |-> "ok",
              weight |-> Some(weight), bias |-> self.bias,
              y |-> Some(F_linear(x, weight, self.bias))]
Linear_forward(self, x) ==
    IF NoiseActive(self) /\ self.vn_std = None THEN ForwardError(self, "TypeError")
    ELSE LET weight == IF NoiseActive(self)
                       THEN Perturbed(self.flat_weights[1], self.vn_std, self.noise[1][1])
                       ELSE self.flat_weights[1]
         IN  [self |-> self, status |-> "ok",
              weight |-> Some(weight), bias |-> self.bias,
              y |-> Some(F_linear(x, weight, self.bias))]

Embedding_forward(self, input) ==
    IF NoiseActive(self) /\ self.vn_std = None THEN ForwardError(self, "TypeError")
    ELSE LET weight == IF NoiseActive(self)
                       THEN Perturbed(self.flat_weights[1], self.vn_std, self.noise[1][1])
                       ELSE self.flat_weights[1]
         IN  [self |-> self, status |-> "ok",
              weight |-> Some(weight), bias |-> None,
              y |-> Some(F_embedding(input, weight))]

\* the weight list LSTM.forward builds: for i in range(0, len(noises), 2)
\* it appends _flat_weights[2i] + vn_std*noises[i], [2i+1] + vn_std*noises[i+1],
\* _flat_weights[2i+2], _flat_weights[2i+3] (0-based)
LSTMNoisyWeights(self) ==
    LET noises == self.noise[1]
        fw == self.flat_weights
        steps == (Len(noises) + 1) \div 2
        entry(k) ==
            LET i == 2 * ((k - 1) \div 4)
                r == (k - 1) % 4
            IN  CASE r = 0 -> Perturbed(fw[2 * i + 1], self.vn_std, noises[i + 1])
                  [] r = 1 -> Perturbed(fw[2 * i + 2], self.vn_std, noises[i + 2])
                  [] r = 2 -> fw[2 * i + 3]
                  [] OTHER -> fw[2 * i + 4]
    IN  [k \in 1..(4 * steps) |-> entry(k)]

\* every 1-based index the loop reads: <<into _flat_weights, into noises>>
LSTMIndicesInBounds(self) ==
    LET noises == self.noise[1]
    IN  \A i \in {j \in 0..(Len(noises) - 1) : j % 2 = 0} :
            /\ 2 * i + 4 <= Len(self.flat_weights)
            /\ i + 2 <= Len(noises)

LSTM_forward(self, input) ==
    IF NoiseActive(self) /\ self.vn_std = None THEN ForwardError(self, "TypeError")
    ELSE IF NoiseActive(self) /\ ~LSTMIndicesInBounds(self) THEN ForwardError(self, "IndexError")
    ELSE LET weight == IF NoiseActive(self) THEN LSTMNoisyWeights(self) ELSE self.flat_weights
         IN  [self |-> self, status |-> "ok",
              weight |-> Some(weight), bias |-> None,
              y |-> Some(VF_lstm(input, weight, TRUE))]

forward(self, x) ==
    CASE self.kind = "Linear" -> Linear_forward(self, x)
      [] self.kind = "Embedding" -> Embedding_forward(self, x)
      [] OTHER -> LSTM_forward(self, x)

\* the forward inputs the model enumerates, per layer kind
Bits(n) == [1..n -> {0, 1}]
Inputs(self) ==
    CASE self.kind = "Linear" -> Bits(InFeatures) \ {[i \in 1..InFeatures |-> 0]}
      [] self.kind = "Embedding" -> {<<t>> : t \in 0..(NumEmbeddings - 1)}
      [] OTHER -> {<<1>>}

----------------------------------------------------------------------------
(* The life of one layer: construction, then any calls in any order *)

NoCall == [op |-> "construct", arg |-> None, pre |-> None, out |-> None]

Init ==
    /\ layer \in Layers
    /\ last = NoCall
    /\ conv = None
    /\ conv_last = None
    /\ switch = None
    /\ switch_last = None
    /\ replicas = None
    /\ pc = None
    /\ drawn0 = None
    /\ overwritten = FALSE
    /\ pool = None
    /\ pool_last = None

InitVn ==
    \E m \in VnStds :
        /\ layer' = init_vn(layer, m)
        /\ last' = [op |-> "init_vn", arg |-> Some(m), pre |-> Some(layer), out |-> None]
        /\ UNCHANGED exceptNoise

SampleSynapticNoise ==
    \E distributed \in BOOLEAN, drawn \in NoiseDraws(layer) :
        /\ layer' = sample_synaptic_noise(layer, distributed, drawn)
        /\ last' = [op |-> "sample_synaptic_noise", arg |-> Some(distributed),
                    pre |-> None, out |-> None]
        /\ UNCHANGED exceptNoise

Train ==
    /\ layer' = [layer EXCEPT !.training = TRUE]
    /\ last' = [op |-> "train", arg |-> None, pre |-> Some(layer), out |-> None]
    /\ UNCHANGED exceptNoise

Eval ==
    /\ layer' = [layer EXCEPT !.training = FALSE]
    /\ last' = [op |-> "eval", arg |-> None, pre |-> Some(layer), out |-> None]
    /\ UNCHANGED exceptNoise

Forward ==
    \E x \in Inputs(layer) :
        LET r == forward(layer, x)
        IN  /\ layer' = r.self
            /\ last' = [op |-> "forward", arg |-> Some(x), pre |-> Some(layer),
                        out |-> Some([status |-> r.status, weight |-> r.weight,
                                      bias |-> r.bias, y |-> r.y])]
            /\ UNCHANGED exceptNoise

Next == InitVn \/ SampleSynapticNoise \/ Train \/ Eval \/ Forward

Spec == Init /\ [][Next]_vars

----------------------------------------------------------------------------
(* Properties of the noise layers, checked under Spec *)

LastPre == last.pre[1]
LastOut == last.out[1]
LastArg == last.arg[1]

\* the weight argument forward hands to the primitive op when no noise is added
RawWeight(self) == IF self.kind = "LSTM" THEN self.flat_weights ELSE self.flat_weights[1]

\* the primitive op of the layer's kind applied to explicit weights
PrimitiveOp(self, x, weight) ==
    CASE self.kind = "Linear" -> F_linear(x, weight, self.bias)
      [] self.kind = "Embedding" -> F_embedding(x, weight)
      [] OTHER -> VF_lstm(x, weight, TRUE)

\* C4: a forward call made in evaluation mode, after any sequence of init_vn,
\* sample_synaptic_noise, train and eval calls, succeeds, hands the raw
\* trainable weights to the primitive op, and returns what the same layer
\* returns when its noise was never sampled.
C4_EvalForwardUsesRawWeights ==
    (last.op = "forward" /\ ~LastPre.training) =>
        /\ LastOut.status = "ok"
        /\ LastOut.weight = Some(RawWeight(LastPre))
        /\ LastOut.y = Some(PrimitiveOp(LastPre, LastArg, RawWeight(LastPre)))
        /\ LastOut.y = forward([LastPre EXCEPT !.noise = None], LastArg).y

C4_Witness ==
    /\ last.op = "forward"
    /\ LastPre.kind = "LSTM"
    /\ ~LastPre.training
    /\ LastPre.noise # None
    /\ LastPre.vn_std # None
    /\ LastPre.vn_std[1] > 0
    /\ LastOut.status = "ok"

\* C5: a training-mode forward of Linear or Embedding with magnitude m set and
\* noise e present hands weight + m*e (entry by entry) and the unperturbed
\* bias to the primitive op, and leaves the layer's stored weight, bias, noise
\* and magnitude as they were.
C5_TrainingForwardAddsNoiseOnly ==
    (/\ last.op = "forward"
     /\ LastPre.kind \in {"Linear", "Embedding"}
     /\ LastPre.training
     /\ LastPre.vn_std # None
     /\ LastPre.noise # None) =>
        LET W == LastPre.flat_weights[1]
            m == LastPre.vn_std[1]
            e == LastPre.noise[1][1]
            used == LastOut.weight[1]
        IN  /\ LastOut.status = "ok"
            /\ Size(used) = Size(W)
            /\ \A i \in 1..Len(W) : \A j \in 1..Len(W[i]) :
                    used[i][j] = W[i][j] + m * e[i][j]
            /\ LastOut.bias = LastPre.bias
            /\ LastOut.y = Some(PrimitiveOp(LastPre, LastArg, used))
            /\ layer = LastPre

C5_Witness ==
    /\ last.op = "forward"
    /\ LastPre.kind = "Linear"
    /\ LastPre.training
    /\ LastPre.bias # None
    /\ LastPre.vn_std # None
    /\ LastPre.vn_std[1] > 0
    /\ LastPre.noise # None
    /\ LastOut.status = "ok"
    /\ LastOut.weight # Some(LastPre.flat_weights[1])

\* C10: init_vn(m) sets the magnitude to m and leaves the noise samples (unset
\* or present), the weights, the bias and the mode as they were; a second
\* init_vn(m) changes nothing more.
C10_InitVnSetsOnlyMagnitude ==
    last.op = "init_vn" =>
        /\ layer.vn_std = Some(LastArg)
        /\ layer.noise = LastPre.noise
        /\ layer.flat_weights = LastPre.flat_weights
        /\ layer.bias = LastPre.bias
        /\ layer.training = LastPre.training
        /\ layer.kind = LastPre.kind
        /\ init_vn(layer, LastArg) = layer

C10_Witness ==
    /\ last.op = "init_vn"
    /\ LastPre.noise # None
    /\ LastPre.vn_std # None
    /\ LastPre.vn_std # Some(LastArg)
    /\ layer.noise # None

\* what LSTM.forward's noise branch is to build from the layer `self`: one
\* entry per entry of _flat_weights; per group g the two weight matrices plus
\* vn_std times the noise tensors drawn for those same two entries, then the
\* two biases as they are; every index the loop uses in range
LSTMWeightListAligned(self, out) ==
    LET fw == self.flat_weights
        G == Len(fw) \div 4
        noises == self.noise[1]
        m == self.vn_std[1]
        used == out.weight[1]
        plus(U, W, e) ==
            /\ Size(e) = Size(W)
            /\ Size(U) = Size(W)
            /\ \A i \in 1..Len(W) : \A j \in 1..Len(W[i]) :
                    U[i][j] = W[i][j] + m * e[i][j]
    IN  /\ out.status = "ok"
        /\ LSTMIndicesInBounds(self)
        /\ Len(noises) = 2 * G
        /\ Len(used) = 4 * G
        /\ \A g \in 0..(G - 1) :
                /\ plus(used[4 * g + 1], fw[4 * g + 1], noises[2 * g + 1])
                /\ plus(used[4 * g + 2], fw[4 * g + 2], noises[2 * g + 2])
                /\ used[4 * g + 3] = fw[4 * g + 3]
                /\ used[4 * g + 4] = fw[4 * g + 4]

\* C11: for an LSTM with G weight groups, a training-mode forward made after
\* sample_synaptic_noise builds a weight list of length 4G whose entries 4g
\* and 4g+1 are the original weights plus vn_std times the noise tensors
\* sampled from those same two entries and whose entries 4g+2 and 4g+3 are
\* the original biases, with every index into the flattened list and the
\* noise list in bounds.
C11_LSTMForwardBuildsAlignedWeights ==
    (/\ last.op = "forward"
     /\ LastPre.kind = "LSTM"
     /\ LastPre.training
     /\ LastPre.noise # None) =>
        LSTMWeightListAligned(LastPre, LastOut)

C11_Witness ==
    /\ last.op = "forward"
    /\ LastPre.kind = "LSTM"
    /\ Len(LastPre.flat_weights) > 8
    /\ LastPre.training
    /\ LastPre.noise # None
    /\ LastPre.vn_std = None
    /\ LastOut.status = "TypeError"

\* The index arithmetic of the noise branch alone: once init_vn has set the
\* magnitude, the list is aligned and in bounds for every number of groups.
LSTMAlignedWhenMagnitudeSet ==
    (/\ last.op = "forward"
     /\ LastPre.kind = "LSTM"
     /\ LastPre.training
     /\ LastPre.noise # None
     /\ LastPre.vn_std # None) =>
        LSTMWeightListAligned(LastPre, LastOut)

LSTMAlignedReached ==
    /\ last.op = "forward"
    /\ LastPre.kind = "LSTM"
    /\ LastPre.training
    /\ LastPre.noise # None
    /\ LastPre.vn_std # None
    /\ LastPre.vn_std[1] > 0
    /\ Len(LastPre.flat_weights) > 8
    /\ \E a, b \in 1..Len(LastPre.noise[1]) : LastPre.noise[1][a][1] # LastPre.noise[1][b][1]
    /\ LastOut.status = "ok"

\* C13: for Linear, LSTM and Embedding, after any sequence of init_vn,
\* sample_synaptic_noise and mode-switch calls, no state has noise samples
\* present with the magnitude vn_std unset, and a training-mode forward that
\* takes the noise branch evaluates vn_std * noise with vn_std set.
C13_SamplesPresentImplyMagnitudeSet ==
    /\ layer.noise # None => layer.vn_std # None
    /\ (last.op = "forward" /\ NoiseActive(LastPre)) =>
            (LastPre.vn_std # None /\ LastOut.status = "ok")

C13_Witness ==
    /\ last.op = "forward"
    /\ LastPre.kind = "Linear"
    /\ LastPre.training
    /\ LastPre.noise # None
    /\ LastPre.vn_std = None
    /\ LastOut.status = "TypeError"

----------------------------------------------------------------------------
(* LSTM stacks of more than two weight groups: the layer is taken after    *)
(* init_vn (or none) and one sample_synaptic_noise, then forward is called *)

LSTMStacks ==
    {LSTM_init(n, bi) : n \in 1..MaxLSTMLayers, bi \in BOOLEAN}

LSTMInit ==
    /\ \E l \in LSTMStacks :
          \E s \in {None} \cup {Some(m) : m \in VnStds} :
             \E drawn \in NoiseDraws(l) :
                layer = sample_synaptic_noise(
                            IF s = None THEN l ELSE init_vn(l, s[1]), FALSE, drawn)
    /\ last = NoCall
    /\ conv = None /\ conv_last = None
    /\ switch = None /\ switch_last = None
    /\ replicas = None /\ pc = None /\ drawn0 = None /\ overwritten = FALSE
    /\ pool = None
    /\ pool_last = None

LSTMNext == Train \/ Eval \/ Forward

SpecLSTM == LSTMInit /\ [][LSTMNext]_vars

----------------------------------------------------------------------------
(* Convolution wrappers: construction with a padding mode, then forward.   *)
(* One channel in and out and a batch of one; the channels_last permutes   *)
(* move no spatial position and are left out.                             *)

Rank(cls) == CASE cls = "Conv2d" -> 2 [] cls = "Conv3d" -> 3 [] OTHER -> 1

\* the padding arguments the model passes: the documented three and one other
Modes == {"valid", "same", "causal", "full"}

ConvFailed(cls, padding) ==
    [cls |-> cls, status |-> "AssertionError", mode |-> padding,
     kernel_size |-> <<>>, stride |-> 0, dilation |-> 0, padding |-> <<>>,
     output_padding |-> 0, pre_padding |-> <<>>, weight |-> <<>>, bias |-> <<>>]

ConvBuilt(cls, kernel_size, stride, dilation, native, output_padding, padding, pre_padding) ==
    [cls |-> cls, status |-> "ok", mode |-> padding,
     kernel_size |-> kernel_size, stride |-> stride, dilation |-> dilation,
     padding |-> native, output_padding |-> output_padding,
     pre_padding |-> pre_padding,
     weight |-> Vec(kernel_size[1], 0), bias |-> <<1>>]

\* pre_padding[i] is <<before, after>> for spatial dimension i (dimension 1
\* first); nn.Identity pads nothing; ConstantPadNd lists the last dimension first
NoPad(rank) == [i \in 1..rank |-> <<0, 0>>]
SamePad(kernel_size) ==
    [i \in 1..Len(kernel_size) |-> <<kernel_size[i] \div 2, (kernel_size[i] - 1) \div 2>>]

Conv1d_init(kernel_size, stride, dilation, padding) ==
    IF padding \notin {"valid", "same", "causal"} THEN ConvFailed("Conv1d", padding)
    ELSE ConvBuilt("Conv1d", kernel_size, stride, dilation, <<0>>, 0, padding,
            CASE padding = "valid" -> NoPad(1)
              [] padding = "same" -> <<<<kernel_size[1] \div 2, (kernel_size[1] - 1) \div 2>>>>
              [] OTHER -> <<<<kernel_size[1] - 1, 0>>>>)

Conv2d_init(kernel_size, stride, dilation, padding) ==
    IF padding \notin {"valid", "same"} THEN ConvFailed("Conv2d", padding)
    ELSE ConvBuilt("Conv2d", kernel_size, stride, dilation, <<0, 0>>, 0, padding,
            CASE padding = "valid" -> NoPad(2)
              [] OTHER -> SamePad(kernel_size))

Conv3d_init(kernel_size, stride, dilation, padding) ==
    IF padding \notin {"valid", "same", "causal"} THEN ConvFailed("Conv3d", padding)
    ELSE ConvBuilt("Conv3d", kernel_size, stride, dilation, <<0, 0, 0>>, 0, padding,
            CASE padding = "valid" -> NoPad(3)
              [] padding = "same" -> SamePad(kernel_size)
              [] OTHER -> <<<<kernel_size[1] - 1, 0>>,
                            <<kernel_size[2] \div 2, (kernel_size[2] - 1) \div 2>>,
                            <<kernel_size[3] \div 2, (kernel_size[3] - 1) \div 2>>>>)

\* the native padding is first set to dilation * (kernel_size - 1) (the model
\* takes the item assignment to self.padding to store the value), then the
\* mode is asserted
ConvTranspose1d_init(kernel_size, stride, dilation, output_padding, padding) ==
    IF padding \notin {"valid", "same", "causal"} THEN ConvFailed("ConvTranspose1d", padding)
    ELSE ConvBuilt("ConvTranspose1d", kernel_size, stride, dilation,
            <<dilation * (kernel_size[1] - 1)>>, output_padding, padding,
            CASE padding = "valid" -> <<<<dilation * (kernel_size[1] - 1),
                                          dilation * (kernel_size[1] - 1)>>>>
              [] padding = "same" -> <<<<kernel_size[1] \div 2, (kernel_size[1] - 1) \div 2>>>>
              [] OTHER -> <<<<kernel_size[1] - 1, 0>>>>)

\* nn.ConstantPad1d(padding=(left, right), value=0)
Zeros(n) == [i \in 1..n |-> 0]
ConstantPad1d(x, pad) == Zeros(pad[1]) \o x \o Zeros(pad[2])

\* the runtime's convolution along one dimension: output length, or 0 when
\* the dilated kernel does not fit the (padded) input and the op raises
ConvOutLen(L, k, s, d, p) ==
    IF L + 2 * p < d * (k - 1) + 1 THEN 0
    ELSE ((L + 2 * p - d * (k - 1) - 1) \div s) + 1

\* the runtime's transposed convolution along one dimension
ConvTransposeOutLen(L, k, s, d, p, op) ==
    LET n == (L - 1) * s - 2 * p + d * (k - 1) + op + 1
    IN  IF n < 1 \/ op >= (IF s > d THEN s ELSE d) THEN 0 ELSE n

\* F.conv1d(x, weight, bias, stride, padding=0, dilation): cross-correlation
F_conv1d(x, weight, bias, s, d) ==
    LET k == Len(weight)
    IN  [t \in 1..ConvOutLen(Len(x), k, s, d, 0) |->
            bias[1] + SumTo([j \in 1..k |-> weight[j] * x[(t - 1) * s + (j - 1) * d + 1]], k)]

ConvResult(status, in_shape, x, out_shape, y) ==
    [status |-> status, in_shape |-> in_shape, x |-> x, out_shape |-> out_shape, y |-> y]

\* Conv1d.forward on the values x: pre_padding, then the convolution
Conv1d_forward(self, x) ==
    LET padded == ConstantPad1d(x, self.pre_padding[1])
        n == ConvOutLen(Len(padded), self.kernel_size[1], self.stride, self.dilation, self.padding[1])
    IN  IF n = 0 THEN ConvResult("RuntimeError", <<Len(x)>>, Some(x), <<>>, None)
        ELSE ConvResult("ok", <<Len(x)>>, Some(x), <<n>>,
                Some(F_conv1d(padded, self.weight, self.bias, self.stride, self.dilation)))

\* Conv2d.forward and Conv3d.forward on an input of spatial shape `shape`
ConvNd_forward(self, shape) ==
    LET n == [i \in 1..Len(shape) |->
                 ConvOutLen(shape[i] + self.pre_padding[i][1] + self.pre_padding[i][2],
                            self.kernel_size[i], self.stride, self.dilation, self.padding[i])]
    IN  IF \E i \in 1..Len(shape) : n[i] = 0
        THEN ConvResult("RuntimeError", shape, None, <<>>, None)
        ELSE ConvResult("ok", shape, None, n, None)

\* ConvTranspose1d.forward on an input of spatial shape <<L>>
ConvTranspose1d_forward(self, shape) ==
    LET n == ConvTransposeOutLen(shape[1] + self.pre_padding[1][1] + self.pre_padding[1][2],
                 self.kernel_size[1], self.stride, self.dilation, self.padding[1],
                 self.output_padding)
    IN  IF n = 0 THEN ConvResult("RuntimeError", shape, None, <<>>, None)
        ELSE ConvResult("ok", shape, None, <<n>>, None)

\* the forward inputs the model enumerates: values for Conv1d, and an input
\* of the same length along every dimension for the others
Signals == UNION {[1..n -> {0, 1}] : n \in 1..MaxLen}
Shapes(rank) == {[i \in 1..rank |-> n] : n \in 1..MaxLen}

ConvInit ==
    /\ conv = None
    /\ conv_last = None
    /\ layer = None
    /\ last = None
    /\ switch = None
    /\ switch_last = None
    /\ replicas = None
    /\ pc = None
    /\ drawn0 = None
    /\ overwritten = FALSE
    /\ pool = None
    /\ pool_last = None

ConstructConv1d ==
    /\ conv = None
    /\ \E k \in 1..MaxKernel, s \in 1..MaxStride, d \in 1..MaxDilation, padding \in Modes :
            conv' = Some(Conv1d_init(<<k>>, s, d, padding))
    /\ UNCHANGED <<conv_last, exceptConv>>

ConstructConv2d ==
    /\ conv = None
    /\ \E k \in [1..2 -> 1..MaxKernel], s \in 1..MaxStride, d \in 1..MaxDilation, padding \in Modes :
            conv' = Some(Conv2d_init(k, s, d, padding))
    /\ UNCHANGED <<conv_last, exceptConv>>

ConstructConv3d ==
    /\ conv = None
    /\ \E k \in [1..3 -> 1..MaxKernel], s \in 1..MaxStride, d \in 1..MaxDilation, padding \in Modes :
            conv' = Some(Conv3d_init(k, s, d, padding))
    /\ UNCHANGED <<conv_last, exceptConv>>

ConstructConvTranspose1d ==
    /\ conv = None
    /\ \E k \in 1..MaxKernel, s \in 1..MaxStride, d \in 1..MaxDilation,
          op \in 0..MaxOutputPadding, padding \in Modes :
            conv' = Some(ConvTranspose1d_init(<<k>>, s, d, op, padding))
    /\ UNCHANGED <<conv_last, exceptConv>>

ForwardConv1d ==
    /\ conv # None
    /\ conv[1].status = "ok"
    /\ conv[1].cls = "Conv1d"
    /\ \E x \in Signals : conv_last' = Some(Conv1d_forward(conv[1], x))
    /\ UNCHANGED <<conv, exceptConv>>

ForwardConvNd ==
    /\ conv # None
    /\ conv[1].status = "ok"
    /\ conv[1].cls \in {"Conv2d", "Conv3d"}
    /\ \E shape \in Shapes(Rank(conv[1].cls)) : conv_last' = Some(ConvNd_forward(conv[1], shape))
    /\ UNCHANGED <<conv, exceptConv>>

ForwardConvTranspose1d ==
    /\ conv # None
    /\ conv[1].status = "ok"
    /\ conv[1].cls = "ConvTranspose1d"
    /\ \E shape \in Shapes(1) : conv_last' = Some(ConvTranspose1d_forward(conv[1], shape))
    /\ UNCHANGED <<conv, exceptConv>>

ConvNext ==
    \/ ConstructConv1d
    \/ ConstructConv2d
    \/ ConstructConv3d
    \/ ConstructConvTranspose1d
    \/ ForwardConv1d
    \/ ForwardConvNd
    \/ ForwardConvTranspose1d

SpecConv == ConvInit /\ [][ConvNext]_vars

----------------------------------------------------------------------------
(* Properties of the convolution wrappers, checked under SpecConv *)

ConvDone == conv # None /\ conv[1].status = "ok" /\ conv_last # None

\* C1: a Conv1d built with mode "same" and stride 1 returns, for every kernel
\* size, dilation and input length, an output as long as its input.
C1_SameKeepsLength ==
    (/\ ConvDone
     /\ conv[1].cls = "Conv1d"
     /\ conv[1].mode = "same"
     /\ conv[1].stride = 1
     /\ conv_last[1].status = "ok") =>
        conv_last[1].out_shape = conv_last[1].in_shape

\* C2: a Conv1d built with mode "causal" (stride 1, any dilation) gives the
\* same output at position t for any two inputs that agree on positions <= t.
C2_CausalNoFutureLeak ==
    (/\ ConvDone
     /\ conv[1].cls = "Conv1d"
     /\ conv[1].mode = "causal"
     /\ conv[1].stride = 1
     /\ conv_last[1].status = "ok") =>
        LET x == conv_last[1].x[1]
            y == conv_last[1].y[1]
        IN  \A x2 \in [1..Len(x) -> {0, 1}] :
                LET y2 == Conv1d_forward(conv[1], x2).y[1]
                IN  \A t \in 1..Len(y) :
                        (\A p \in 1..Len(x) : p <= t => x2[p] = x[p]) => y2[t] = y[t]

C8_ModesAcceptedAtConstruction ==
    conv # None =>
        (conv[1].status = "ok" <=> conv[1].mode \in {"valid", "same", "causal"})

----------------------------------------------------------------------------
(* SwitchLinear: one nn.Linear per expert, chosen per example by an index *)

SwitchLinear_init(num_experts, bias) ==
    [num_experts |-> num_experts,
     experts |-> [e \in 1..num_experts |->
                     [weight |-> Mat(OutFeatures, InFeatures, 10 * e),
                      bias |-> IF bias THEN Some(Vec(OutFeatures, 100 * e)) ELSE None]]]

\* nn.ModuleList.__getitem__(index): an index in [-len, len) is taken as a
\* Python list takes it (a negative index counts from the end); the 1-based
\* position of the module, or 0 when the index raises IndexError
ModuleList_getitem_one_based(n, index) ==
    IF index < 1 \/ index > n THEN 0 ELSE index
ModuleList_getitem(n, index) ==
    IF index < -n \/ index >= n THEN 0
    ELSE IF index < 0 THEN index + n + 1 ELSE index + 1

SwitchResult(status, x, indices, y) ==
    [status |-> status, x |-> x, indices |-> indices, y |-> y]

\* SwitchLinear.forward(x, indices): x holds one row per example
SwitchLinear_forward(self, x, indices) ==
    LET N == Len(indices)
        at(n) == ModuleList_getitem(Len(self.experts), indices[n])
    IN  IF \E n \in 1..N : at(n) = 0 THEN SwitchResult("IndexError", x, indices, None)
        ELSE IF N = 0 THEN SwitchResult("RuntimeError", x, indices, None)
        ELSE IF \E n \in 1..N : self.experts[at(n)].bias = None
             THEN SwitchResult("TypeError", x, indices, None)
        ELSE LET weight == [n \in 1..N |-> self.experts[at(n)].weight]
                 bias == [n \in 1..N |-> self.experts[at(n)].bias[1]]
                 \* (N, 1, Di) x (N, Di, Do) -> (N, 1, Do), squeezed to (N, Do)
                 prod == [n \in 1..N |-> VecMat(x[n], Transpose(weight[n]))]
             IN  SwitchResult("ok", x, indices,
                     Some([n \in 1..N |-> VAdd(prod[n], bias[n])]))

\* the examples and indices the model enumerates
Examples ==
    {Vec(InFeatures, 0)} \cup
    {[i \in 1..InFeatures |-> IF i = j THEN 1 ELSE 0] : j \in 1..InFeatures}
Indices(self) == (-(self.num_experts + 1))..self.num_experts

\* a forward call changes no state of the layer: each behaviour starts from a
\* constructed layer and the arguments of the call to come, and makes the call
SwitchInit ==
    /\ \E n \in 1..MaxExperts, b \in BOOLEAN : switch = Some(SwitchLinear_init(n, b))
    /\ \E N \in 0..MaxBatch :
         \E x \in [1..N -> Examples], indices \in [1..N -> Indices(switch[1])] :
            switch_last = Some(SwitchResult("pending", x, indices, None))
    /\ layer = None
    /\ last = None
    /\ conv = None
    /\ conv_last = None
    /\ replicas = None
    /\ pc = None
    /\ drawn0 = None
    /\ overwritten = FALSE
    /\ pool = None
    /\ pool_last = None

ForwardSwitchLinear ==
    /\ switch_last[1].status = "pending"
    /\ switch_last' = Some(SwitchLinear_forward(switch[1], switch_last[1].x, switch_last[1].indices))
    /\ UNCHANGED <<switch, exceptSwitch>>

SwitchNext == ForwardSwitchLinear

SpecSwitch == SwitchInit /\ [][SwitchNext]_vars

----------------------------------------------------------------------------
(* Properties of SwitchLinear, checked under SpecSwitch *)

InRange(self, index) == 0 <= index /\ index < self.num_experts

C9_OutOfRangeIndexRaises ==
    (/\ switch_last # None
     /\ switch_last[1].status # "pending"
     /\ \E n \in 1..Len(switch_last[1].indices) : ~InRange(switch[1], switch_last[1].indices[n])) =>
        /\ switch_last[1].status \in {"IndexError", "RuntimeError", "TypeError"}
        /\ switch_last[1].y = None

----------------------------------------------------------------------------
(* sample_synaptic_noise(distributed=True) on NumRanks replicas of one      *)
(* layer. Each participant draws its noise, then enters one broadcast per   *)
(* noise tensor, in list order; a broadcast is a blocking collective that   *)
(* completes once every participant has entered it.                        *)

Ranks == 0..(NumRanks - 1)

DistLayers ==
    {Linear_init(TRUE), Embedding_init}
    \cup {LSTM_init(n, FALSE) : n \in 1..MaxDistGroups}

Idle(calls) == [at |-> "idle", j |-> 0, calls |-> calls]

DistInit ==
    /\ \E l \in DistLayers : replicas = [p \in Ranks |-> l]
    /\ pc = [p \in Ranks |-> Idle(0)]
    /\ drawn0 = None
    /\ overwritten = FALSE
    /\ layer = None
    /\ last = None
    /\ conv = None
    /\ conv_last = None
    /\ switch = None
    /\ switch_last = None
    /\ pool = None
    /\ pool_last = None

\* participant p calls sample_synaptic_noise(True): the draw fills its noise
DistSample(p) ==
    /\ pc[p].at = "idle"
    /\ pc[p].calls < MaxCalls
    /\ \E drawn \in NoiseDraws(replicas[p]) :
        /\ replicas' = [replicas EXCEPT ![p] = sample_synaptic_noise(replicas[p], FALSE, drawn)]
        /\ drawn0' = IF p = 0 THEN Some(drawn) ELSE drawn0
    /\ pc' = [pc EXCEPT ![p] = [at |-> "broadcast", j |-> 1, calls |-> pc[p].calls]]
    /\ UNCHANGED <<overwritten, exceptDist>>

\* the broadcast of noise tensor j completes: every participant's tensor j
\* becomes rank 0's, and each goes on to its next tensor or returns
DistBroadcast ==
    /\ \A p \in Ranks : pc[p].at = "broadcast"
    /\ \E j \in 1..Len(replicas[0].noise[1]) :
        /\ \A p \in Ranks : pc[p].j = j
        /\ replicas' = [p \in Ranks |->
              [replicas[p] EXCEPT !.noise[1][j] =
                  Broadcast(replicas[p].noise[1][j], replicas[0].noise[1][j])]]
        /\ overwritten' =
              (overwritten \/ \E p \in Ranks : replicas[p].noise[1][j] # replicas[0].noise[1][j])
        /\ pc' = [p \in Ranks |->
              IF j = Len(replicas[p].noise[1]) THEN Idle(pc[p].calls + 1)
              ELSE [pc[p] EXCEPT !.j = j + 1]]
    /\ UNCHANGED <<drawn0, exceptDist>>

DistNext == (\E p \in Ranks : DistSample(p)) \/ DistBroadcast

SpecDist == DistInit /\ [][DistNext]_vars

----------------------------------------------------------------------------
(* Properties of synchronized sampling, checked under SpecDist *)

\* C7: when every participant has returned from the same number (>= 1) of
\* sample_synaptic_noise(distributed=True) calls, each participant's noise
\* tensors are, position by position, the tensors participant 0 drew in its
\* last call, whatever the participant drew itself.
C7_ReplicasHoldRankZeroNoise ==
    \A p \in Ranks :
        (/\ pc[p].at = "idle"
         /\ pc[0].at = "idle"
         /\ pc[p].calls >= 1
         /\ pc[p].calls = pc[0].calls) =>
            /\ replicas[p].noise # None
            /\ Len(replicas[p].noise[1]) = Len(drawn0[1])
            /\ \A n \in 1..Len(drawn0[1]) : replicas[p].noise[1][n] = drawn0[1][n]

C7_Witness ==
    /\ \A p \in Ranks : pc[p].at = "idle" /\ pc[p].calls = MaxCalls
    /\ replicas[0].kind = "LSTM"
    /\ overwritten
    /\ replicas[0].noise[1][1] # replicas[0].noise[1][2]

----------------------------------------------------------------------------
(* Global average pooling: GlobalAvgPool1d, GlobalAvgPool2d,               *)
(* GlobalAvgPool3d. One batch element and one channel: x and mask are the  *)
(* values at the pooled positions (dim 1; dims 2,3; axes 2,3,4) in         *)
(* row-major order, and keepdim is left at its default False. A quotient   *)
(* n / d of the tensor runtime is kept exact as the pair <<n, d>>.         *)

Quotient(n, d) == <<n, d>>

\* two quotients denote the same number (a zero divisor gives nan or inf,
\* equal only to a quotient of the same dividend by zero)
SameNumber(a, b) ==
    IF a[2] = 0 \/ b[2] = 0 THEN a = b ELSE a[1] * b[2] = b[1] * a[2]

Sum(v) == SumTo(v, Len(v))
Mul(x, mask) == [i \in 1..Len(x) |-> x[i] * mask[i]]
CountNonzero(mask) == Cardinality({i \in 1..Len(mask) : mask[i] # 0})
Mean(x) == Quotient(Sum(x), Len(x))

GlobalAvgPool1d_init == [cls |-> "GlobalAvgPool1d", dim |-> <<1>>]
GlobalAvgPool2d_init == [cls |-> "GlobalAvgPool2d", dim |-> <<2, 3>>]
GlobalAvgPool3d_init == [cls |-> "GlobalAvgPool3d", dim |-> <<2, 3, 4>>]

GlobalAvgPool1d_forward(self, x, mask) ==
    IF mask # None
    THEN Quotient(Sum(Mul(x, mask[1])), CountNonzero(mask[1]))
    ELSE Mean(x)

GlobalAvgPool2d_forward(self, x, mask) ==
    IF mask # None
    THEN Quotient(Sum(Mul(x, mask[1])), CountNonzero(mask[1]))
    ELSE Mean(x)

\* the mask parameter is accepted and not used
GlobalAvgPool3d_forward(self, x, mask) == Mean(x)

Pool_forward(self, x, mask) ==
    CASE self.cls = "GlobalAvgPool1d" -> GlobalAvgPool1d_forward(self, x, mask)
      [] self.cls = "GlobalAvgPool2d" -> GlobalAvgPool2d_forward(self, x, mask)
      [] OTHER -> GlobalAvgPool3d_forward(self, x, mask)

PoolVals == {0, 1, 3}
MaskVals == {0, 1}
PoolInputs == UNION {[1..n -> PoolVals] : n \in 1..MaxPooled}
PoolMasks(x) == {None} \cup {Some(m) : m \in [1..Len(x) -> MaskVals]}

PoolResult(status, x, mask, y) == [status |-> status, x |-> x, mask |-> mask, y |-> y]

\* the wrapper is constructed and the arguments of its one call are drawn
PoolInit ==
    /\ pool \in {Some(GlobalAvgPool1d_init), Some(GlobalAvgPool2d_init),
                 Some(GlobalAvgPool3d_init)}
    /\ \E x \in PoolInputs : \E mask \in PoolMasks(x) :
            pool_last = Some(PoolResult("pending", x, mask, None))
    /\ layer = None
    /\ last = None
    /\ conv = None
    /\ conv_last = None
    /\ switch = None
    /\ switch_last = None
    /\ replicas = None
    /\ pc = None
    /\ drawn0 = None
    /\ overwritten = FALSE

ForwardGlobalAvgPool1d ==
    /\ pool[1].cls = "GlobalAvgPool1d"
    /\ pool_last[1].status = "pending"
    /\ pool_last' = Some(PoolResult("ok", pool_last[1].x, pool_last[1].mask,
                        Some(GlobalAvgPool1d_forward(pool[1], pool_last[1].x, pool_last[1].mask))))
    /\ UNCHANGED pool
    /\ UNCHANGED exceptPool

ForwardGlobalAvgPool2d ==
    /\ pool[1].cls = "GlobalAvgPool2d"
    /\ pool_last[1].status = "pending"
    /\ pool_last' = Some(PoolResult("ok", pool_last[1].x, pool_last[1].mask,
                        Some(GlobalAvgPool2d_forward(pool[1], pool_last[1].x, pool_last[1].mask))))
    /\ UNCHANGED pool
    /\ UNCHANGED exceptPool

ForwardGlobalAvgPool3d ==
    /\ pool[1].cls = "GlobalAvgPool3d"
    /\ pool_last[1].status = "pending"
    /\ pool_last' = Some(PoolResult("ok", pool_last[1].x, pool_last[1].mask,
                        Some(GlobalAvgPool3d_forward(pool[1], pool_last[1].x, pool_last[1].mask))))
    /\ UNCHANGED pool
    /\ UNCHANGED exceptPool

PoolNext == ForwardGlobalAvgPool1d \/ ForwardGlobalAvgPool2d \/ ForwardGlobalAvgPool3d

SpecPool == PoolInit /\ [][PoolNext]_vars

\* the inputs that agree with x wherever the mask is nonzero
AgreeWhereKept(x, mask) ==
    {x2 \in [1..Len(x) -> PoolVals] : \A i \in 1..Len(x) : mask[i] # 0 => x2[i] = x[i]}

\* what a call is to return: with a mask, sum(x*mask) over the number of
\* nonzero mask entries, whatever x holds where the mask is zero; without a
\* mask, the plain mean
PoolsAsMaskedMean(self, r) ==
    IF r.mask # None
    THEN /\ SameNumber(r.y[1], Quotient(Sum(Mul(r.x, r.mask[1])), CountNonzero(r.mask[1])))
         /\ \A x2 \in AgreeWhereKept(r.x, r.mask[1]) :
                SameNumber(Pool_forward(self, x2, r.mask), r.y[1])
    ELSE SameNumber(r.y[1], Mean(r.x))

\* C12: each of GlobalAvgPool1d, GlobalAvgPool2d and GlobalAvgPool3d, called
\* with a mask, returns sum(x*mask) divided by the number of nonzero mask
\* entries over the pooled dimensions, so that the values at masked-out
\* positions do not change the result; called without a mask it returns the
\* plain mean.
C12_MaskedPoolingIgnoresMaskedOut ==
    pool_last[1].status = "ok" => PoolsAsMaskedMean(pool[1], pool_last[1])

C12_Witness ==
    /\ pool[1].cls = "GlobalAvgPool3d"
    /\ pool_last[1].status = "ok"
    /\ pool_last[1].x = <<1, 3>>
    /\ pool_last[1].mask = Some(<<1, 0>>)
    /\ pool_last[1].y = Some(Quotient(4, 2))

\* the same statement for the two wrappers that read their mask
MaskedMean1d2d ==
    (pool_last[1].status = "ok" /\ pool[1].cls # "GlobalAvgPool3d") =>
        PoolsAsMaskedMean(pool[1], pool_last[1])

====
